---- MODULE Spec2Model ----
(***************************************************************************)
(* Energy dispatch optimisation: the cost-mode program of                  *)
(* optimization/model.py, the islanded program of                          *)
(* optimization/microgrid_model.py, their solve/decode wrappers            *)
(* (solve_milp.py, solve_microgrid.py) and the simulation runners.         *)
(*                                                                         *)
(* Units.  Energies are whole kWh.  Prices and penalty weights are in      *)
(* hundredths (cycle_penalty 0.01 is 1, price_buy 6.0 is 600).  An         *)
(* efficiency is a fraction [n |-> numerator, d |-> denominator].          *)
(*                                                                         *)
(* The solver.  PULP_CBC_CMD minimises the linear objective over the       *)
(* constraints of the built program.  Here the minimum is taken over the   *)
(* assignments in which every variable is a whole number (cost-mode unmet  *)
(* capped at demand + MaxSlack), by backward induction on the state of     *)
(* charge; solve picks any minimiser.                                      *)
(***************************************************************************)
EXTENDS Integers, Sequences, FiniteSets, TLC

VARIABLES
    mode,         \* "cost" (solve_day) or "islanded" (solve_microgrid)
    gen_kwh,      \* generation series, argument of the solve call
    demand_kwh,   \* cost mode: aggregate demand series
    loads,        \* islanded mode: the three per-class demand series
    battery,      \* battery dict
    grid,         \* grid dict (cost mode)
    params,       \* params dict
    pc,           \* "start", "returned" or "raised"
    raised,       \* the exception that left the call, or "none"
    program,      \* the program the builder returned, or NoProgram
    status,       \* pulp.LpStatus of the solve, or "none"
    result,       \* the dict the call returned, or NoResult
    calls,        \* the solve calls a caller made in turn, the current last
    runner,       \* the simulation script whose main() runs, or "none"
    solar_file,   \* solar_energy_forecast.json
    wind_file,    \* wind_energy_forecast.json
    defaults_gen, \* the generation series of data/inputs_defaults.json
    run_pc,       \* "start", "solving" (the solve call is made) or "raised"
    run_raised,   \* the exception that left main(), or "none"
    solve_call    \* the solve function main() called and the gen it passed

solvevars == <<mode, gen_kwh, demand_kwh, loads, battery, grid, params,
               pc, raised, program, status, result, calls>>
runvars == <<runner, solar_file, wind_file, defaults_gen, run_pc, run_raised,
             solve_call>>
vars == <<solvevars, runvars>>

\* Longest generation series drawn.
MaxH == 2
\* Cost-mode unmet[h] has no upper bound in the program; the search stops
\* at demand[h] + MaxSlack.
MaxSlack == 1

NoProgram == [kind |-> "none"]
NoResult == [status |-> "none"]

Min(S) == CHOOSE x \in S : \A y \in S : x <= y
Max2(a, b) == IF a >= b THEN a ELSE b
Min2(a, b) == IF a <= b THEN a ELSE b

One == [n |-> 1, d |-> 1]
Half == [n |-> 1, d |-> 2]
Zero == [n |-> 0, d |-> 1]

\* All sequences over S of length n.
SeqsOfLen(S, n) == [1..n -> S]

----------------------------------------------------------------------------
(* optimization/model.py: build_milp_model *)

\* max(eta_d, 1e-6), the denominator of line 81.
ClampEtaD(eta) ==
    IF eta.n * 1000000 < eta.d THEN [n |-> 1, d |-> 1000000] ELSE eta

\* InitialSocCost without the clamp.
InitialSocCost_Unclamped(capacity, soc0) == soc0

\* max(0.0, min(capacity, soc0)), the right-hand side of line 64.
InitialSocCost(capacity, soc0) == Max2(0, Min2(capacity, soc0))

\* The program of lines 53-92, or the exception that leaves the builder:
\* soc[0] on an empty list (line 64), demand_kwh[h] past its end (line 70).
build_milp_model(gen, demand, bat, grd, prm) ==
    IF Len(gen) = 0 \/ Len(demand) < Len(gen)
    THEN [raised |-> "IndexError", program |-> NoProgram]
    ELSE [raised |-> "none",
          program |->
            [kind |-> "cost",
             H |-> Len(gen),
             gen |-> gen,
             demand |-> SubSeq(demand, 1, Len(gen)),
             capacity |-> bat.capacity_kWh,
             soc_init |-> InitialSocCost(bat.capacity_kWh, bat.soc0_kWh),
             max_c |-> bat.max_charge_rate_kW,
             max_d |-> bat.max_discharge_rate_kW,
             eta_c |-> prm.eta_charge,
             eta_d |-> ClampEtaD(prm.eta_discharge),
             export_limit |-> grd.export_limit_kW,
             import_limit |-> grd.import_limit_kW,
             price_buy |-> grd.price_buy_per_kWh,
             price_sell |-> grd.price_sell_per_kWh,
             lambda_unmet |-> prm.lambda_unmet,
             mu_curtail |-> prm.mu_curtail,
             cycle_penalty |-> prm.cycle_penalty]]

----------------------------------------------------------------------------
(* The constraints of one hour, shared by both programs. *)

\* soc[h] ranges over lowBound=0, upBound=capacity.
SocRange(p) == 0..p.capacity

\* ChargeRange with the rate limit off by one.
ChargeRange_OverRate(p) == 0..(p.max_c + 1)

\* charge[h] >= 0 and charge[h] <= max_c.
ChargeRange(p) == 0..p.max_c

\* discharge[h] >= 0 and discharge[h] <= max_d.
DischargeRange(p) == 0..p.max_d

\* SocNext with discharge multiplied by eta_d instead of divided by it.
SocNext_TimesEtaD(p, s, c, x) ==
    s + (p.eta_c.n * c) \div p.eta_c.d - (x * p.eta_d.n) \div p.eta_d.d

\* soc[h+1] == soc[h] + eta_c*charge[h] - discharge[h]/eta_d.
SocNext(p, s, c, x) ==
    s + (p.eta_c.n * c) \div p.eta_c.d - (x * p.eta_d.d) \div p.eta_d.n

\* The next state of charge is a whole number.
SocNextWhole(p, c, x) ==
    /\ (p.eta_c.n * c) % p.eta_c.d = 0
    /\ (x * p.eta_d.d) % p.eta_d.n = 0

\* The battery moves allowed in hour h (1-based) from state of charge s:
\* the rate limits, and for h < H the dynamics into a soc[h+1] in range.
BatteryMoves(p, h, s) ==
    {m \in [charge : ChargeRange(p), discharge : DischargeRange(p)] :
        h < p.H => /\ SocNextWhole(p, m.charge, m.discharge)
                   /\ SocNext(p, s, m.charge, m.discharge) \in SocRange(p)}

----------------------------------------------------------------------------
(* Cost mode: one hour of the program of build_milp_model. *)

\* g_import[h] >= 0 and g_import[h] <= import_limit.
ImportRange(p) == 0..p.import_limit

\* g_export[h] >= 0 and g_export[h] <= export_limit.
ExportRange(p) == 0..p.export_limit

\* CurtailCost with grid_export left out of the balance.
CurtailCost_NoExport(g, dm, c, x, i, e, u) == g + i + x - dm - c + u

\* The energy balance of lines 68-71 solved for curtail[h]:
\* gen + import + discharge == demand + charge + export + curtail - unmet.
CurtailCost(g, dm, c, x, i, e, u) == g + i + x - dm - c - e + u

\* The assignments of hour h that satisfy its constraints from soc s.
HourChoicesCost(p, h, s) ==
    {d \in
        {[charge |-> m.charge, discharge |-> m.discharge,
          grid_import |-> i, grid_export |-> e, unmet |-> u,
          curtail |-> CurtailCost(p.gen[h], p.demand[h], m.charge,
                                  m.discharge, i, e, u),
          soc |-> s] :
            m \in BatteryMoves(p, h, s), i \in ImportRange(p),
            e \in ExportRange(p), u \in 0..(Max2(p.demand[h], 0) + MaxSlack)} :
        d.curtail >= 0}

\* HourCostCost without the revenue of exported energy.
HourCostCost_NoExportRevenue(p, d) ==
    p.price_buy * d.grid_import
    + p.lambda_unmet * d.unmet + p.mu_curtail * d.curtail
    + p.cycle_penalty * (d.charge + d.discharge)

\* The objective terms of hour h, lines 86-90.
HourCostCost(p, d) ==
    p.price_buy * d.grid_import - p.price_sell * d.grid_export
    + p.lambda_unmet * d.unmet + p.mu_curtail * d.curtail
    + p.cycle_penalty * (d.charge + d.discharge)

----------------------------------------------------------------------------
(* optimization/microgrid_model.py: build_microgrid_model *)

\* The right-hand side of the initial-SoC equality, line 74.
InitialSocIsland(capacity, soc0) == soc0

\* The program of lines 56-103, or the exception that leaves the builder.
\* Hour by hour (h from 0): a class series with no entry h raises
\* IndexError (lines 82-84); discharge[h] / eta_d with eta_d = 0 raises
\* ZeroDivisionError (line 92, reached for h < H - 1).
build_microgrid_model(gen, lds, bat, prm) ==
    LET H == Len(gen)
        shortest == Min({Len(lds.hospital_kWh), Len(lds.school_kWh),
                         Len(lds.homes_kWh)})
    IN  IF H = 0 \/ shortest = 0
        THEN [raised |-> "IndexError", program |-> NoProgram]
        ELSE IF H >= 2 /\ prm.eta_discharge.n = 0
        THEN [raised |-> "ZeroDivisionError", program |-> NoProgram]
        ELSE IF shortest < H
        THEN [raised |-> "IndexError", program |-> NoProgram]
        ELSE [raised |-> "none",
              program |->
                [kind |-> "islanded",
                 H |-> H,
                 gen |-> gen,
                 hospital_demand |-> SubSeq(lds.hospital_kWh, 1, H),
                 school_demand |-> SubSeq(lds.school_kWh, 1, H),
                 homes_demand |-> SubSeq(lds.homes_kWh, 1, H),
                 capacity |-> bat.capacity_kWh,
                 soc_init |-> InitialSocIsland(bat.capacity_kWh, bat.soc0_kWh),
                 max_c |-> bat.max_charge_rate_kW,
                 max_d |-> bat.max_discharge_rate_kW,
                 eta_c |-> prm.eta_charge,
                 eta_d |-> prm.eta_discharge,
                 P_hospital_unmet |-> prm.P_hospital_unmet,
                 P_school_unmet |-> prm.P_school_unmet,
                 P_homes_unmet |-> prm.P_homes_unmet,
                 P_curtail |-> prm.P_curtail,
                 P_cycle |-> prm.P_cycle]]

\* UnmetIsland cut off at zero instead of bounding served by demand.
UnmetIsland_Clamped(dm, served) == Max2(dm - served, 0)

\* The load constraint of lines 82-84 solved for the unmet variable:
\* served + unmet == demand.
UnmetIsland(dm, served) == dm - served

\* The values served[h] may take: served >= 0 and unmet >= 0.
ServedChoices(dm) ==
    {v \in 0..(Max2(dm, 0) + MaxSlack) : UnmetIsland(dm, v) >= 0}

\* CurtailIsland with charge left out of the balance.
CurtailIsland_NoCharge(g, c, x, total_served) == g + x - total_served

\* The energy balance of lines 78-79 solved for curtail[h]:
\* gen + discharge == charge + total_served + curtail.
CurtailIsland(g, c, x, total_served) == g + x - c - total_served

\* The assignments of hour h that satisfy its constraints from soc s.
HourChoicesIsland(p, h, s) ==
    {d \in
        {[charge |-> m.charge, discharge |-> m.discharge,
          hospital_served |-> hs, school_served |-> ss, homes_served |-> ms,
          hospital_unmet |-> UnmetIsland(p.hospital_demand[h], hs),
          school_unmet |-> UnmetIsland(p.school_demand[h], ss),
          homes_unmet |-> UnmetIsland(p.homes_demand[h], ms),
          curtail |-> CurtailIsland(p.gen[h], m.charge, m.discharge,
                                    hs + ss + ms),
          soc |-> s] :
            m \in BatteryMoves(p, h, s),
            hs \in ServedChoices(p.hospital_demand[h]),
            ss \in ServedChoices(p.school_demand[h]),
            ms \in ServedChoices(p.homes_demand[h])} :
        d.curtail >= 0}

\* HourCostIsland with the hospital and homes weights exchanged.
HourCostIsland_WeightsExchanged(p, d) ==
    p.P_homes_unmet * d.hospital_unmet + p.P_school_unmet * d.school_unmet
    + p.P_hospital_unmet * d.homes_unmet + p.P_curtail * d.curtail
    + p.P_cycle * (d.charge + d.discharge)

\* HourCostIsland with curtailment rewarded instead of penalised.
HourCostIsland_CurtailRewarded(p, d) ==
    p.P_hospital_unmet * d.hospital_unmet + p.P_school_unmet * d.school_unmet
    + p.P_homes_unmet * d.homes_unmet - p.P_curtail * d.curtail
    + p.P_cycle * (d.charge + d.discharge)

\* HourCostIsland without the term of the school's unmet energy.
HourCostIsland_SchoolUnweighted(p, d) ==
    p.P_hospital_unmet * d.hospital_unmet
    + p.P_homes_unmet * d.homes_unmet + p.P_curtail * d.curtail
    + p.P_cycle * (d.charge + d.discharge)

\* The objective terms of hour h, lines 96-101.
HourCostIsland(p, d) ==
    p.P_hospital_unmet * d.hospital_unmet + p.P_school_unmet * d.school_unmet
    + p.P_homes_unmet * d.homes_unmet + p.P_curtail * d.curtail
    + p.P_cycle * (d.charge + d.discharge)

----------------------------------------------------------------------------
(* model.solve(pulp.PULP_CBC_CMD(msg=False)) *)

HourChoices(p, h, s) ==
    IF p.kind = "cost" THEN HourChoicesCost(p, h, s)
    ELSE HourChoicesIsland(p, h, s)

HourCost(p, d) ==
    IF p.kind = "cost" THEN HourCostCost(p, d) ELSE HourCostIsland(p, d)

\* The least objective of hours h..H from each state of charge: a sequence
\* (hour h first) of functions from soc[h] to <<cost>>, or to <<>> where no
\* assignment of the remaining hours satisfies the constraints.
\* f as an explicit table, so that each entry is computed once.
Tabulate(f) == f @@ <<>>

RECURSIVE ValueFrom(_, _)
ValueFrom(p, h) ==
    IF h > p.H THEN <<[s \in SocRange(p) |-> <<0>>]>>
    ELSE LET rest == ValueFrom(p, h + 1)
             nxt == rest[1]
             after(d) == nxt[SocNext(p, d.soc, d.charge, d.discharge)]
             here == [s \in SocRange(p) |->
                        LET cs == {HourCost(p, d)
                                     + (IF h < p.H THEN after(d)[1] ELSE 0) :
                                   d \in {e \in HourChoices(p, h, s) :
                                            h < p.H => after(e) # <<>>}}
                        IN  IF cs = {} THEN <<>> ELSE <<Min(cs)>>]
         \* rest is asked for first, so that the later hours are computed
         \* before, and not inside, the table of hour h.
         IN  IF Len(rest) = 0 THEN <<>> ELSE <<Tabulate(here)>> \o rest

\* Some assignment satisfies every constraint.
Feasible(p, V) == p.soc_init \in SocRange(p) /\ V[1][p.soc_init] # <<>>

\* The objective falls without bound: only unmet[h] and curtail[h] of the
\* cost program have no upper bound, and the balance moves them together.
Unbounded(p) == p.kind = "cost" /\ p.lambda_unmet + p.mu_curtail < 0

LpStatus(p, V) ==
    IF ~Feasible(p, V) THEN "Infeasible"
    ELSE IF Unbounded(p) THEN "Unbounded"
    ELSE "Optimal"

\* The optimal assignments of hours h..H from soc s, hour h first.
RECURSIVE OptPlans(_, _, _, _)
OptPlans(p, V, h, s) ==
    IF h > p.H THEN {<<>>}
    ELSE LET after(d) == SocNext(p, d.soc, d.charge, d.discharge)
             best == {d \in HourChoices(p, h, s) :
                        IF h < p.H
                        THEN /\ V[h + 1][after(d)] # <<>>
                             /\ HourCost(p, d) + V[h + 1][after(d)][1]
                                  = V[h][s][1]
                        ELSE HourCost(p, d) = V[h][s][1]}
         IN  UNION {{<<d>> \o tail :
                       tail \in OptPlans(p, V, h + 1,
                                         IF h < p.H THEN after(d) ELSE s)} :
                    d \in best}

----------------------------------------------------------------------------
(* optimization/solve_milp.py: solve_day; solve_microgrid.py: solve_microgrid *)

RECURSIVE SumCost(_, _, _)
SumCost(p, plan, h) ==
    IF h > Len(plan) THEN 0 ELSE HourCost(p, plan[h]) + SumCost(p, plan, h + 1)

\* ObjectiveValue with the objective of the caller's previous call carried
\* over into this one.
ObjectiveValue_Carried(p, plan) ==
    SumCost(p, plan, 1)
    + (IF Len(calls) > 1 /\ calls[Len(calls) - 1].outcome.objective # <<>>
       THEN calls[Len(calls) - 1].outcome.objective[1]
       ELSE 0)

\* pulp.value(model.objective) at the variables' values.
ObjectiveValue(p, plan) == SumCost(p, plan, 1)

\* values(name): the list of float(v.value()) over the hours.
Values(plan, name) == [h \in 1..Len(plan) |-> plan[h][name]]

\* The dict of solve_day, lines 34-44.
ResultCost(st, p, plan) ==
    [status |-> st,
     total_cost |-> ObjectiveValue(p, plan),
     charge_kWh |-> Values(plan, "charge"),
     discharge_kWh |-> Values(plan, "discharge"),
     grid_import_kWh |-> Values(plan, "grid_import"),
     grid_export_kWh |-> Values(plan, "grid_export"),
     soc_kWh |-> Values(plan, "soc"),
     unmet_kWh |-> Values(plan, "unmet"),
     curtail_kWh |-> Values(plan, "curtail")]

\* The dict of solve_microgrid, lines 37-50.
ResultIsland(st, p, plan) ==
    [status |-> st,
     total_penalty |-> ObjectiveValue(p, plan),
     charge_kWh |-> Values(plan, "charge"),
     discharge_kWh |-> Values(plan, "discharge"),
     soc_kWh |-> Values(plan, "soc"),
     hospital_served_kWh |-> Values(plan, "hospital_served"),
     school_served_kWh |-> Values(plan, "school_served"),
     homes_served_kWh |-> Values(plan, "homes_served"),
     hospital_unmet_kWh |-> Values(plan, "hospital_unmet"),
     school_unmet_kWh |-> Values(plan, "school_unmet"),
     homes_unmet_kWh |-> Values(plan, "homes_unmet"),
     curtail_kWh |-> Values(plan, "curtail")]

\* What v.value() holds after a solve that did not end Optimal: nothing
\* (None, written <<>>), or the number <<v>> the solver last wrote to every
\* variable.
LeftValues == {<<>>, <<0>>, <<1>>}

\* Every variable of the program holding the number v.
LeftPlan(p, v) ==
    [h \in 1..p.H |->
        IF p.kind = "cost"
        THEN [charge |-> v, discharge |-> v, grid_import |-> v,
              grid_export |-> v, unmet |-> v, curtail |-> v, soc |-> v]
        ELSE [charge |-> v, discharge |-> v, hospital_served |-> v,
              school_served |-> v, homes_served |-> v, hospital_unmet |-> v,
              school_unmet |-> v, homes_unmet |-> v, curtail |-> v,
              soc |-> v]]

\* The dict returned for a program of either kind.
Decode(st, p, plan) ==
    IF p.kind = "cost" THEN ResultCost(st, p, plan)
    ELSE ResultIsland(st, p, plan)

\* Build, solve and decode: the body shared by solve_day and
\* solve_microgrid.  b is the builder's outcome.  Neither function tests
\* the status: values(name) runs float(v.value()) whatever it is, and
\* float(None) raises TypeError.
SolveAndDecode(b) ==
    IF b.raised # "none"
    THEN /\ pc' = "raised"
         /\ raised' = b.raised
         /\ program' = NoProgram
         /\ status' = "none"
         /\ result' = NoResult
    ELSE LET p == b.program
             V == ValueFrom(p, 1)
             st == LpStatus(p, V)
         IN  /\ program' = p
             /\ status' = st
             /\ IF st = "Optimal"
                THEN \E plan \in OptPlans(p, V, 1, p.soc_init) :
                        /\ pc' = "returned"
                        /\ raised' = "none"
                        /\ result' = Decode(st, p, plan)
                ELSE \E v \in LeftValues :
                        IF v = <<>>
                        THEN /\ pc' = "raised"
                             /\ raised' = "TypeError"
                             /\ result' = NoResult
                        ELSE /\ pc' = "returned"
                             /\ raised' = "none"
                             /\ result' = Decode(st, p, LeftPlan(p, v[1]))

solve_day ==
    /\ pc = "start"
    /\ mode = "cost"
    /\ SolveAndDecode(build_milp_model(gen_kwh, demand_kwh, battery, grid,
                                       params))
    /\ UNCHANGED <<mode, gen_kwh, demand_kwh, loads, battery, grid, params>>
    /\ UNCHANGED calls
    /\ UNCHANGED runvars

solve_microgrid ==
    /\ pc = "start"
    /\ mode = "islanded"
    /\ SolveAndDecode(build_microgrid_model(gen_kwh, loads, battery, params))
    /\ UNCHANGED <<mode, gen_kwh, demand_kwh, loads, battery, grid, params>>
    /\ UNCHANGED calls
    /\ UNCHANGED runvars

----------------------------------------------------------------------------
(* The inputs of a solve call. *)

GenVals == {0, 4}
DemandVals == {1, 2}
HospitalVals == {2}
SchoolVals == {0, 1}
HomesVals == {1}

\* The series over S of length H, and the constant ones an hour shorter or
\* longer.
SeriesNear(S, H) ==
    SeqsOfLen(S, H)
    \cup {[h \in 1..n |-> v] : n \in {H - 1, H + 1} \cap Nat, v \in S}

GenSeries == UNION {SeqsOfLen(GenVals, n) : n \in 0..MaxH}

\* The class series for horizon H: at most one of a length other than H.
LoadSets(H) ==
    {l \in [hospital_kWh : SeriesNear(HospitalVals, H),
            school_kWh : SeriesNear(SchoolVals, H),
            homes_kWh : SeriesNear(HomesVals, H)] :
        Cardinality({k \in DOMAIN l : Len(l[k]) # H}) <= 1}

\* base, and base with one key set to another value of its domain.
Variants(base, dom) ==
    {base} \cup UNION {{[base EXCEPT ![k] = v] : v \in dom[k]} :
                       k \in DOMAIN base}

BatteryBase ==
    [capacity_kWh |-> 4, soc0_kWh |-> 2,
     max_charge_rate_kW |-> 2, max_discharge_rate_kW |-> 2]
BatteryDomain ==
    [capacity_kWh |-> {-1, 0, 4}, soc0_kWh |-> {-1, 2, 5},
     max_charge_rate_kW |-> {-1, 0, 2}, max_discharge_rate_kW |-> {-1, 0, 2}]

GridBase ==
    [price_buy_per_kWh |-> 600, price_sell_per_kWh |-> 300,
     export_limit_kW |-> 1, import_limit_kW |-> 1]
GridDomain ==
    [price_buy_per_kWh |-> {0, 600}, price_sell_per_kWh |-> {0, 300},
     export_limit_kW |-> {-1, 0, 1}, import_limit_kW |-> {-1, 0, 1}]
NoGrid == [price_buy_per_kWh |-> 0]

CostParamsBase ==
    [eta_charge |-> One, eta_discharge |-> One,
     lambda_unmet |-> 10000, mu_curtail |-> 200, cycle_penalty |-> 1]
CostParamsDomain ==
    [eta_charge |-> {One, Half}, eta_discharge |-> {One, Half, Zero},
     lambda_unmet |-> {-10000, 0, 10000}, mu_curtail |-> {-200, 0, 200},
     cycle_penalty |-> {0, 1}]

IslandParamsBase ==
    [eta_charge |-> One, eta_discharge |-> One,
     P_hospital_unmet |-> 100000, P_school_unmet |-> 10000,
     P_homes_unmet |-> 1000, P_curtail |-> 100, P_cycle |-> 10]
IslandParamsDomain ==
    [eta_charge |-> {One, Half}, eta_discharge |-> {One, Half, Zero},
     P_hospital_unmet |-> {100, 100000}, P_school_unmet |-> {10000},
     P_homes_unmet |-> {1000, 100000}, P_curtail |-> {0, 100},
     P_cycle |-> {0, 10}]

NoLoads == [hospital_kWh |-> <<>>]

\* Battery, grid and params of a cost-mode call: at most one key away from
\* the base configuration.
CostConfigs ==
    {<<b, GridBase, CostParamsBase>> : b \in Variants(BatteryBase, BatteryDomain)}
    \cup {<<BatteryBase, g, CostParamsBase>> : g \in Variants(GridBase, GridDomain)}
    \cup {<<BatteryBase, GridBase, q>> :
            q \in Variants(CostParamsBase, CostParamsDomain)}

IslandConfigs ==
    {<<b, IslandParamsBase>> : b \in Variants(BatteryBase, BatteryDomain)}
    \cup {<<BatteryBase, q>> :
            q \in Variants(IslandParamsBase, IslandParamsDomain)}

InitCost ==
    /\ mode = "cost"
    /\ gen_kwh \in GenSeries
    /\ demand_kwh \in SeriesNear(DemandVals, Len(gen_kwh))
    /\ loads = NoLoads
    /\ \E c \in CostConfigs :
          battery = c[1] /\ grid = c[2] /\ params = c[3]

InitIsland ==
    /\ mode = "islanded"
    /\ gen_kwh \in GenSeries
    /\ demand_kwh = <<>>
    /\ loads \in LoadSets(Len(gen_kwh))
    /\ grid = NoGrid
    /\ \E c \in IslandConfigs : battery = c[1] /\ params = c[2]

NoFile == [exists |-> FALSE, key |-> "", series |-> <<>>]
NoCall == [fn |-> "none", gen |-> <<>>]

\* No runner is running.
RunIdle ==
    /\ runner = "none"
    /\ solar_file = NoFile
    /\ wind_file = NoFile
    /\ defaults_gen = <<>>
    /\ run_pc = "start"
    /\ run_raised = "none"
    /\ solve_call = NoCall

\* No solve call is in progress.
SolveIdle ==
    /\ mode = "none"
    /\ gen_kwh = <<>>
    /\ demand_kwh = <<>>
    /\ loads = NoLoads
    /\ battery = BatteryBase
    /\ grid = NoGrid
    /\ params = CostParamsBase
    /\ pc = "idle"
    /\ raised = "none"
    /\ program = NoProgram
    /\ status = "none"
    /\ result = NoResult
    /\ calls = <<>>

Init ==
    /\ InitCost \/ InitIsland
    /\ pc = "start"
    /\ raised = "none"
    /\ program = NoProgram
    /\ status = "none"
    /\ result = NoResult
    /\ calls = <<>>
    /\ RunIdle

Next == solve_day \/ solve_microgrid

Spec == Init /\ [][Next]_vars

----------------------------------------------------------------------------
(* simulation/run_day.py, run_from_forecasts.py, run_microgrid.py,         *)
(* run_quantum_comparison.py: load_series and main, up to the solve call.  *)

\* The hours of a day, the length main() requires of a forecast series.
HOURS == 24

\* obj.get(k): the series under key k, or None (falsy, written <<>>).
Get(file, k) == IF file.key = k THEN file.series ELSE <<>>

\* a or b on lists: a unless it is empty (or None).
Or(a, b) == IF a # <<>> THEN a ELSE b

\* load_series of run_day.py (lines 8-19), run_microgrid.py and
\* run_quantum_comparison.py: [] for a missing file, else the first
\* non-empty of three key casings.
load_series(file) ==
    IF ~file.exists THEN <<>>
    ELSE Or(Get(file, "forecast_series_kWh"),
            Or(Get(file, "forecast_series_kwh"),
               Or(Get(file, "forecast_series"), <<>>)))

\* load_series of run_from_forecasts.py (lines 8-11): two key casings; the
\* caller sees open() raise on a missing file.
load_series_from_forecasts(file) ==
    Or(Get(file, "forecast_series_kWh"), Or(Get(file, "forecast_series"), <<>>))

\* [float(s) + float(w) for s, w in zip(solar, wind)]
SumSeries(solar, wind) ==
    [h \in 1..Min2(Len(solar), Len(wind)) |-> solar[h] + wind[h]]

\* solar and wind and len(solar) == 24 and len(wind) == 24
BothUsable(solar, wind) ==
    /\ solar # <<>>
    /\ wind # <<>>
    /\ Len(solar) = HOURS
    /\ Len(wind) = HOURS

\* [0.0] * 24
Zeros == [h \in 1..HOURS |-> 0]

CallSolve(fn, gen) ==
    /\ run_pc' = "solving"
    /\ run_raised' = "none"
    /\ solve_call' = [fn |-> fn, gen |-> gen]

RunRaise(e) ==
    /\ run_pc' = "raised"
    /\ run_raised' = e
    /\ solve_call' = NoCall

\* run_day.py main, lines 22-49: the forecasts, else the defaults' series.
run_day ==
    /\ run_pc = "start"
    /\ runner = "run_day"
    /\ LET solar == load_series(solar_file)
           wind == load_series(wind_file)
       IN  IF BothUsable(solar, wind)
           THEN CallSolve("solve_day", SumSeries(solar, wind))
           ELSE IF defaults_gen = <<>> \/ Len(defaults_gen) # HOURS
           THEN RunRaise("RuntimeError")
           ELSE CallSolve("solve_day", defaults_gen)
    /\ UNCHANGED <<runner, solar_file, wind_file, defaults_gen>>
    /\ UNCHANGED solvevars

\* run_from_forecasts.py main, lines 14-33.
run_from_forecasts ==
    /\ run_pc = "start"
    /\ runner = "run_from_forecasts"
    /\ IF ~solar_file.exists \/ ~wind_file.exists
       THEN RunRaise("FileNotFoundError")
       ELSE LET solar == load_series_from_forecasts(solar_file)
                wind == load_series_from_forecasts(wind_file)
            IN  IF solar = <<>> \/ wind = <<>>
                THEN RunRaise("RuntimeError")
                ELSE IF Len(solar) # HOURS \/ Len(wind) # HOURS
                THEN RunRaise("RuntimeError")
                ELSE CallSolve("solve_day", SumSeries(solar, wind))
    /\ UNCHANGED <<runner, solar_file, wind_file, defaults_gen>>
    /\ UNCHANGED solvevars

\* The generation series of run_microgrid.py main (lines 31-38) and of
\* run_quantum_comparison.py main (lines 49-56): the forecasts, else zeros.
GenOrZeros ==
    LET solar == load_series(solar_file)
        wind == load_series(wind_file)
    IN  IF BothUsable(solar, wind) THEN SumSeries(solar, wind) ELSE Zeros

\* run_microgrid.py main, lines 21-41.
run_microgrid ==
    /\ run_pc = "start"
    /\ runner = "run_microgrid"
    /\ CallSolve("solve_microgrid", GenOrZeros)
    /\ UNCHANGED <<runner, solar_file, wind_file, defaults_gen>>
    /\ UNCHANGED solvevars

\* run_quantum_comparison.py main, lines 39-60.
run_quantum_comparison ==
    /\ run_pc = "start"
    /\ runner = "run_quantum_comparison"
    /\ CallSolve("compare_solvers", GenOrZeros)
    /\ UNCHANGED <<runner, solar_file, wind_file, defaults_gen>>
    /\ UNCHANGED solvevars

Runners ==
    {"run_day", "run_from_forecasts", "run_microgrid", "run_quantum_comparison"}

SeriesKeys ==
    {"forecast_series_kWh", "forecast_series_kwh", "forecast_series", "series"}

\* A series of n entries, each v.
Flat(n, v) == [h \in 1..n |-> v]

\* The series a forecast file or the defaults may hold: none, one hour
\* short, one hour long, or a full day.
FileSeries ==
    {<<>>, Flat(HOURS - 1, 1), Flat(HOURS + 1, 1), Flat(HOURS, 1),
     Flat(HOURS, 2)}

Files ==
    {NoFile} \cup [exists : {TRUE}, key : SeriesKeys, series : FileSeries]

InitRun ==
    /\ runner \in Runners
    /\ solar_file \in Files
    /\ wind_file \in Files
    /\ defaults_gen \in {<<>>, Flat(HOURS - 1, 1), Flat(HOURS, 1)}
    /\ run_pc = "start"
    /\ run_raised = "none"
    /\ solve_call = NoCall
    /\ SolveIdle

\* The series generate_hourly_forecast of main.py returns: 24 predictions,
\* each max(0, round(prediction, 1)).
GeneratedSeries == {Flat(HOURS, 0), Flat(HOURS, 1), Flat(HOURS, 2)}

\* The object main.py dumps to a forecast file, lines 188-200.
ForecastFile(series) ==
    [exists |-> TRUE, key |-> "forecast_series_kwh", series |-> series]

\* main.py main, lines 179-213: the forecast generator writes both files.
forecast_main ==
    /\ run_pc = "start"
    /\ \E solar \in GeneratedSeries, wind \in GeneratedSeries :
          /\ solar_file' = ForecastFile(solar)
          /\ wind_file' = ForecastFile(wind)
    /\ UNCHANGED <<runner, defaults_gen, run_pc, run_raised, solve_call>>
    /\ UNCHANGED solvevars

NextRun ==
    \/ run_day
    \/ run_from_forecasts
    \/ run_microgrid
    \/ run_quantum_comparison
    \/ forecast_main

SpecRun == InitRun /\ [][NextRun]_vars

----------------------------------------------------------------------------
(* A caller that makes several solve calls in turn: solve_day and          *)
(* solve_microgrid keep nothing from one call to the next.                 *)

\* Most calls one caller makes.
MaxCalls == 3

\* The arguments of the current call.
Inputs ==
    [mode |-> mode, gen_kwh |-> gen_kwh, demand_kwh |-> demand_kwh,
     loads |-> loads, battery |-> battery, grid |-> grid, params |-> params]

RECURSIVE Total(_)
Total(series) ==
    IF series = <<>> THEN 0 ELSE Head(series) + Total(Tail(series))

\* The call has not ended.
Pending == [done |-> FALSE]

\* What the ended call left its caller: the exception or the status, the
\* objective value of the returned dict, and each class's total unmet energy.
Outcome ==
    [done |-> TRUE,
     raised |-> raised,
     status |-> status,
     objective |->
        IF pc # "returned" THEN <<>>
        ELSE IF mode = "cost" THEN <<result.total_cost>>
        ELSE <<result.total_penalty>>,
     unmet |->
        IF pc = "returned" /\ mode = "islanded"
        THEN [P_hospital_unmet |-> Total(result.hospital_unmet_kWh),
              P_school_unmet |-> Total(result.school_unmet_kWh),
              P_homes_unmet |-> Total(result.homes_unmet_kWh)]
        ELSE [P_hospital_unmet |-> 0, P_school_unmet |-> 0,
              P_homes_unmet |-> 0]]

\* The params keys that weigh a class's unmet energy, lines 50-52.
UnmetWeights == {"P_hospital_unmet", "P_school_unmet", "P_homes_unmet"}

\* The weight a caller raises each class's to: the hospital's to its base
\* value, the school's above the hospital's, the homes' above the school's
\* base value.
RaisedTo ==
    [P_hospital_unmet |-> 100000, P_school_unmet |-> 500000,
     P_homes_unmet |-> 50000]

\* The current arguments with one class's unmet weight raised.
WeightRaised ==
    IF mode # "islanded" THEN {}
    ELSE {[Inputs EXCEPT !.params[k] = RaisedTo[k]] :
            k \in {c \in UnmetWeights : RaisedTo[c] > params[c]}}

\* The current cost-mode arguments with another generation series of the
\* same length.
GenChanged ==
    IF mode # "cost" THEN {}
    ELSE {[Inputs EXCEPT !.gen_kwh = [h \in 1..Len(gen_kwh) |-> v]] :
            v \in GenVals}

\* The arguments of the calls made so far.
Earlier == {calls[i].inputs : i \in 1..Len(calls)}

\* The caller, its last call ended, calls again: with the same arguments,
\* with those of an earlier call, with one unmet weight raised or with
\* another generation series.
call_again ==
    /\ pc \in {"returned", "raised"}
    /\ calls # <<>>
    /\ Len(calls) < MaxCalls
    /\ \E next \in {Inputs} \cup Earlier \cup WeightRaised \cup GenChanged :
          /\ mode' = next.mode
          /\ gen_kwh' = next.gen_kwh
          /\ demand_kwh' = next.demand_kwh
          /\ loads' = next.loads
          /\ battery' = next.battery
          /\ grid' = next.grid
          /\ params' = next.params
          /\ calls' = [calls EXCEPT ![Len(calls)].outcome = Outcome]
                        \o <<[inputs |-> next, outcome |-> Pending]>>
    /\ pc' = "start"
    /\ raised' = "none"
    /\ program' = NoProgram
    /\ status' = "none"
    /\ result' = NoResult
    /\ UNCHANGED runvars

\* The first call of a caller: a full horizon and flat demand, the base
\* battery and grid, the base params or one islanded weight changed.
InitAgain ==
    /\ gen_kwh \in SeqsOfLen(GenVals, MaxH)
    /\ battery = BatteryBase
    /\ \/ /\ mode = "cost"
          /\ demand_kwh \in {[h \in 1..MaxH |-> v] : v \in DemandVals}
          /\ loads = NoLoads
          /\ grid = GridBase
          /\ params = CostParamsBase
       \/ /\ mode = "islanded"
          /\ demand_kwh = <<>>
          /\ loads = [hospital_kWh |-> [h \in 1..MaxH |-> 2],
                      school_kWh |-> [h \in 1..MaxH |-> 1],
                      homes_kWh |-> [h \in 1..MaxH |-> 1]]
          /\ grid = NoGrid
          /\ params \in {q \in Variants(IslandParamsBase, IslandParamsDomain) :
                           /\ q.eta_charge = One
                           /\ q.eta_discharge = One
                           /\ q.P_curtail = IslandParamsBase.P_curtail
                           /\ q.P_cycle = IslandParamsBase.P_cycle}
    /\ pc = "start"
    /\ raised = "none"
    /\ program = NoProgram
    /\ status = "none"
    /\ result = NoResult
    /\ calls = <<[inputs |-> Inputs, outcome |-> Pending]>>
    /\ RunIdle

NextAgain == solve_day \/ solve_microgrid \/ call_again

SpecAgain == InitAgain /\ [][NextAgain]_vars

----------------------------------------------------------------------------
(* The scenarios of the specification, as solve calls. *)

\* Zero generation, islanded.  The energy unit of this scenario is 0.2 kWh,
\* so that the homes demand of 0.8 kWh is whole: demands 2 / 1 / 0.8 kWh are
\* 10 / 5 / 4, and the objective is five times the program's.
ZeroGenLoads(H) ==
    [hospital_kWh |-> Flat(H, 10), school_kWh |-> Flat(H, 5),
     homes_kWh |-> Flat(H, 4)]

ZeroGenBatteryBase ==
    [capacity_kWh |-> 2, soc0_kWh |-> 0,
     max_charge_rate_kW |-> 2, max_discharge_rate_kW |-> 12]
ZeroGenBatteryDomain ==
    [capacity_kWh |-> {0, 2}, soc0_kWh |-> {0},
     max_charge_rate_kW |-> {0, 2}, max_discharge_rate_kW |-> {0, 4, 12, 20}]

\* The weights 1000 / 100 / 10 of the scenario; the other params free.
ZeroGenParamsDomain ==
    [eta_charge |-> {One, Half}, eta_discharge |-> {One, Half},
     P_hospital_unmet |-> {100000}, P_school_unmet |-> {10000},
     P_homes_unmet |-> {1000}, P_curtail |-> {0, 100}, P_cycle |-> {0, 10}]

InitZeroGen ==
    /\ mode = "islanded"
    /\ \E H \in 1..MaxH :
          /\ gen_kwh = Flat(H, 0)
          /\ loads = ZeroGenLoads(H)
    /\ demand_kwh = <<>>
    /\ grid = NoGrid
    /\ \/ /\ battery \in Variants(ZeroGenBatteryBase, ZeroGenBatteryDomain)
          /\ params = IslandParamsBase
       \/ /\ battery = ZeroGenBatteryBase
          /\ params \in Variants(IslandParamsBase, ZeroGenParamsDomain)

\* The flat day, cost mode: 5 kWh generated and 4 kWh demanded in each of
\* the 24 hours, capacity 20 kWh, soc0 10 kWh, rates above every flow of the
\* optimum, and an export limit equal to the hourly surplus.
FlatBattery ==
    [capacity_kWh |-> 20, soc0_kWh |-> 10,
     max_charge_rate_kW |-> 2, max_discharge_rate_kW |-> 2]

FlatGridDomain ==
    [price_buy_per_kWh |-> {600}, price_sell_per_kWh |-> {0, 300},
     export_limit_kW |-> {1}, import_limit_kW |-> {0, 1}]

InitFlat ==
    /\ mode = "cost"
    /\ gen_kwh = Flat(HOURS, 5)
    /\ demand_kwh = Flat(HOURS, 4)
    /\ loads = NoLoads
    /\ battery = FlatBattery
    /\ grid \in Variants(GridBase, FlatGridDomain)
    /\ params = CostParamsBase

\* The export cap, cost mode: generation 2 kWh above demand in every hour,
\* export_limit 1 kWh, price_sell 3 per kWh.
ExportCapBatteryBase ==
    [capacity_kWh |-> 2, soc0_kWh |-> 2,
     max_charge_rate_kW |-> 2, max_discharge_rate_kW |-> 2]
ExportCapBatteryDomain ==
    [capacity_kWh |-> {2, 4}, soc0_kWh |-> {0, 2},
     max_charge_rate_kW |-> {0, 2, 3}, max_discharge_rate_kW |-> {0, 2, 3}]

ExportCapGridDomain ==
    [price_buy_per_kWh |-> {300, 600}, price_sell_per_kWh |-> {300},
     export_limit_kW |-> {1}, import_limit_kW |-> {0, 1}]

ExportCapParamsDomain ==
    [eta_charge |-> {One, Half}, eta_discharge |-> {One, Half},
     lambda_unmet |-> {1000, 10000}, mu_curtail |-> {100, 200},
     cycle_penalty |-> {1, 2}]

InitExportCap ==
    /\ mode = "cost"
    /\ \E H \in 1..MaxH :
          /\ demand_kwh \in SeqsOfLen(DemandVals, H)
          /\ gen_kwh = [h \in 1..H |-> demand_kwh[h] + 2]
    /\ loads = NoLoads
    /\ \/ /\ battery \in Variants(ExportCapBatteryBase, ExportCapBatteryDomain)
          /\ grid = GridBase
          /\ params = CostParamsBase
       \/ /\ battery = ExportCapBatteryBase
          /\ grid \in Variants(GridBase, ExportCapGridDomain)
          /\ params = CostParamsBase
       \/ /\ battery = ExportCapBatteryBase
          /\ grid = GridBase
          /\ params \in Variants(CostParamsBase, ExportCapParamsDomain)

InitScenario ==
    /\ InitZeroGen \/ InitFlat \/ InitExportCap
    /\ pc = "start"
    /\ raised = "none"
    /\ program = NoProgram
    /\ status = "none"
    /\ result = NoResult
    /\ calls = <<>>
    /\ RunIdle

SpecScenario == InitScenario /\ [][Next]_vars

----------------------------------------------------------------------------
(* optimization/solve_microgrid_qaoa.py: solve_microgrid_qaoa.  The        *)
(* quadratic program of qubo.py has 9 binary variables per hour of          *)
(* gen_kwh (z_h_-3 .. z_h_+3, s0_h, s1_h); QAOA returns some assignment x   *)
(* of them, and lines 79-135 decode it over a day of 24 hours.              *)

\* Binary variables per hour, qubo.py lines 43-47 with levels = 3.
QaoaVarsPerHour == 9

\* soc_kWh of the decoded result is counted in 1/380 kWh, in which
\* charge * 0.95 and discharge / 0.95 (line 105) are whole: 361 and 400 per
\* kWh.
SocScale == 380

\* The assignments QAOA may return for H hours: all 0, all 1, only the
\* bits read as charge set, only the bits read as discharge set.
QaoaSamples(H) ==
    {[i \in 1..(QaoaVarsPerHour * H) |-> 0],
     [i \in 1..(QaoaVarsPerHour * H) |-> 1],
     [i \in 1..(QaoaVarsPerHour * H) |-> IF i % 7 = 1 THEN 1 ELSE 0],
     [i \in 1..(QaoaVarsPerHour * H) |-> IF i % 7 = 2 THEN 1 ELSE 0]}

\* Lines 95-101: x[h * 7] * 2.0 and x[h * 7 + 1] * 2.0, hour h from 1 here.
QaoaCharge(x, h) ==
    IF 7 * (h - 1) + 1 <= Len(x) THEN x[7 * (h - 1) + 1] * 2 ELSE 0

QaoaDischarge(x, h) ==
    IF 7 * (h - 1) + 2 <= Len(x) THEN x[7 * (h - 1) + 2] * 2 ELSE 0

\* Lines 82 and 103-105: soc = [10.0] * 24, then
\* soc[h+1] = max(0, min(20, soc[h] + charge[h]*0.95 - discharge[h]/0.95)).
QaoaSoc(x) ==
    LET soc[h \in 1..HOURS] ==
            IF h = 1 THEN 10 * SocScale
            ELSE Max2(0, Min2(20 * SocScale,
                              soc[h - 1] + 361 * QaoaCharge(x, h - 1)
                                - 400 * QaoaDischarge(x, h - 1)))
    IN  [h \in 1..HOURS |-> soc[h]]

\* Lines 107-126: the hour's energy handed to hospital, school and homes in
\* that order, the rest curtailed.
QaoaHour(x, gen, lds, h) ==
    LET available == gen[h] + QaoaDischarge(x, h) - QaoaCharge(x, h)
        hospital_served == Min2(available, lds.hospital_kWh[h])
        after_hospital == available - hospital_served
        school_served == Min2(after_hospital, lds.school_kWh[h])
        after_school == after_hospital - school_served
        homes_served == Min2(after_school, lds.homes_kWh[h])
        after_homes == after_school - homes_served
    IN  [charge |-> QaoaCharge(x, h),
         discharge |-> QaoaDischarge(x, h),
         hospital_served |-> hospital_served,
         school_served |-> school_served,
         homes_served |-> homes_served,
         hospital_unmet |-> lds.hospital_kWh[h] - hospital_served,
         school_unmet |-> lds.school_kWh[h] - school_served,
         homes_unmet |-> lds.homes_kWh[h] - homes_served,
         curtail |-> Max2(0, after_homes)]

\* Lines 129-135, in hundredths: the weights are those written in the code.
QaoaPenalty(plan) ==
    Total(Values(plan, "hospital_unmet")) * 100000
    + Total(Values(plan, "school_unmet")) * 10000
    + Total(Values(plan, "homes_unmet")) * 1000
    + Total(Values(plan, "curtail")) * 100
    + Total(Values(plan, "charge")) * 10
    + Total(Values(plan, "discharge")) * 10

\* The dict of lines 137-152 (quantum_fval, a float, left out; with it
\* result.fval is not None and the status is "Optimal").
QaoaResult(x, gen, lds) ==
    LET plan == [h \in 1..HOURS |-> QaoaHour(x, gen, lds, h)]
    IN  [method |-> "QAOA",
         status |-> "Optimal",
         total_penalty |-> QaoaPenalty(plan),
         charge_kWh |-> Values(plan, "charge"),
         discharge_kWh |-> Values(plan, "discharge"),
         soc_kWh |-> QaoaSoc(x),
         hospital_served_kWh |-> Values(plan, "hospital_served"),
         school_served_kWh |-> Values(plan, "school_served"),
         homes_served_kWh |-> Values(plan, "homes_served"),
         hospital_unmet_kWh |-> Values(plan, "hospital_unmet"),
         school_unmet_kWh |-> Values(plan, "school_unmet"),
         homes_unmet_kWh |-> Values(plan, "homes_unmet"),
         curtail_kWh |-> Values(plan, "curtail")]

\* solve_microgrid_qaoa, lines 49-152.  A class series shorter than 24
\* raises IndexError at lines 57-59, a gen_kwh longer than the 24 entries of
\* total_demand in build_quadratic_program (qubo.py line 93), a shorter one
\* at line 108.
solve_microgrid_qaoa ==
    /\ pc = "start"
    /\ mode = "qaoa"
    /\ IF \/ Len(gen_kwh) # HOURS
          \/ \E k \in DOMAIN loads : Len(loads[k]) < HOURS
       THEN /\ pc' = "raised"
            /\ raised' = "IndexError"
            /\ status' = "none"
            /\ result' = NoResult
       ELSE \E x \in QaoaSamples(Len(gen_kwh)) :
               /\ pc' = "returned"
               /\ raised' = "none"
               /\ status' = "Optimal"
               /\ result' = QaoaResult(x, gen_kwh, loads)
    /\ program' = NoProgram
    /\ UNCHANGED <<mode, gen_kwh, demand_kwh, loads, battery, grid, params>>
    /\ UNCHANGED calls
    /\ UNCHANGED runvars

QaoaBatteryBase ==
    [capacity_kWh |-> 20, soc0_kWh |-> 10,
     max_charge_rate_kW |-> 5, max_discharge_rate_kW |-> 5]
QaoaBatteryDomain ==
    [capacity_kWh |-> {5, 20}, soc0_kWh |-> {2, 10},
     max_charge_rate_kW |-> {1, 5}, max_discharge_rate_kW |-> {1, 5}]

InitQaoa ==
    /\ mode = "qaoa"
    /\ gen_kwh \in {Flat(HOURS, 0), Flat(HOURS, 4), Flat(HOURS - 1, 4),
                    Flat(HOURS + 1, 4)}
    /\ demand_kwh = <<>>
    /\ loads \in [hospital_kWh : {Flat(HOURS, 2), Flat(HOURS - 1, 2)},
                  school_kWh : {Flat(HOURS, 0), Flat(HOURS, 1)},
                  homes_kWh : {Flat(HOURS, 1)}]
    /\ grid = NoGrid
    /\ \/ /\ battery \in Variants(QaoaBatteryBase, QaoaBatteryDomain)
          /\ params = IslandParamsBase
       \/ /\ battery = QaoaBatteryBase
          /\ params \in Variants(IslandParamsBase, IslandParamsDomain)
    /\ pc = "start"
    /\ raised = "none"
    /\ program = NoProgram
    /\ status = "none"
    /\ result = NoResult
    /\ calls = <<>>
    /\ RunIdle

NextQaoa == solve_microgrid_qaoa

SpecQaoa == InitQaoa /\ [][NextQaoa]_vars

----------------------------------------------------------------------------
(* Properties of the returned plans. *)

\* A solve call returned a plan with status Optimal.
Optimal == pc = "returned" /\ result.status = "Optimal"
OptimalCost == Optimal /\ mode = "cost"
OptimalIsland == Optimal /\ mode = "islanded"

\* The hours of the horizon, 1-based: hour h here is hour h - 1 of the code.
Hours == 1..Len(gen_kwh)

\* C1: in every cost-mode plan returned with status Optimal, every hour h of
\* the horizon has generation + grid_import + discharge
\* = demand + charge + grid_export + curtail - unmet.
C1_CostEnergyBalance ==
    OptimalCost =>
        \A h \in Hours :
            gen_kwh[h] + result.grid_import_kWh[h] + result.discharge_kWh[h]
              = demand_kwh[h] + result.charge_kWh[h]
                + result.grid_export_kWh[h] + result.curtail_kWh[h]
                - result.unmet_kWh[h]

\* An Optimal two-hour cost plan that imports, leaves demand unmet and moves
\* the battery.
C1_Witness ==
    /\ OptimalCost
    /\ Len(gen_kwh) = 2
    /\ \E h \in Hours : result.unmet_kWh[h] > 0 /\ result.grid_import_kWh[h] > 0
    /\ \E h \in Hours : result.discharge_kWh[h] > 0

\* C2: in every islanded plan returned with status Optimal, every hour h has
\* generation + discharge
\* = charge + hospital_served + school_served + homes_served + curtail.
C2_IslandEnergyBalance ==
    OptimalIsland =>
        \A h \in Hours :
            gen_kwh[h] + result.discharge_kWh[h]
              = result.charge_kWh[h] + result.hospital_served_kWh[h]
                + result.school_served_kWh[h] + result.homes_served_kWh[h]
                + result.curtail_kWh[h]

\* An Optimal two-hour islanded plan that charges in one hour and
\* discharges in the other.
C2_Witness ==
    /\ OptimalIsland
    /\ Len(gen_kwh) = 2
    /\ \E h \in Hours : result.charge_kWh[h] > 0
    /\ \E h \in Hours : result.discharge_kWh[h] > 0

\* C3: in every Optimal islanded plan, for every class and hour,
\* served + unmet = demand with served >= 0 and unmet >= 0.
C3_ServedPlusUnmet ==
    OptimalIsland =>
        \A h \in Hours :
            /\ result.hospital_served_kWh[h] + result.hospital_unmet_kWh[h]
                 = loads.hospital_kWh[h]
            /\ result.school_served_kWh[h] + result.school_unmet_kWh[h]
                 = loads.school_kWh[h]
            /\ result.homes_served_kWh[h] + result.homes_unmet_kWh[h]
                 = loads.homes_kWh[h]
            /\ result.hospital_served_kWh[h] >= 0
            /\ result.school_served_kWh[h] >= 0
            /\ result.homes_served_kWh[h] >= 0
            /\ result.hospital_unmet_kWh[h] >= 0
            /\ result.school_unmet_kWh[h] >= 0
            /\ result.homes_unmet_kWh[h] >= 0

\* An Optimal islanded plan with an hour in which the hospital is partly
\* served and an hour in which the school is fully served.
C3_Witness ==
    /\ OptimalIsland
    /\ \E h \in Hours :
          result.hospital_served_kWh[h] > 0 /\ result.hospital_unmet_kWh[h] > 0
    /\ \E h \in Hours :
          result.school_served_kWh[h] > 0 /\ result.school_unmet_kWh[h] = 0

\* C4: in both modes every Optimal plan keeps 0 <= soc[h] <= capacity_kWh
\* for every hour, and soc[h+1] = soc[h] + eta_charge*charge[h]
\* - discharge[h]/eta_discharge for every hour but the last.  With the
\* efficiencies as fractions n/d the recurrence is stated multiplied by
\* eta_charge.d * eta_discharge.n.
C4_SocBoundsAndRecurrence ==
    Optimal =>
        LET ec == params.eta_charge
            ed == params.eta_discharge
        IN  /\ \A h \in Hours :
                  0 <= result.soc_kWh[h]
                  /\ result.soc_kWh[h] <= battery.capacity_kWh
            /\ \A h \in Hours \ {Len(gen_kwh)} :
                  ec.d * ed.n * (result.soc_kWh[h + 1] - result.soc_kWh[h])
                    = ec.n * ed.n * result.charge_kWh[h]
                      - ec.d * ed.d * result.discharge_kWh[h]

\* An Optimal plan that discharges before the last hour at a discharge
\* efficiency of one half, drawing twice the energy from the battery.
C4_Witness ==
    /\ Optimal
    /\ params.eta_discharge = Half
    /\ \E h \in Hours \ {Len(gen_kwh)} :
          /\ result.discharge_kWh[h] = 1
          /\ result.soc_kWh[h + 1] = result.soc_kWh[h] - 2

\* C6: in both modes every Optimal plan has every decision variable
\* non-negative, charge[h] <= max_charge_rate and discharge[h] <=
\* max_discharge_rate, and in cost mode grid_import[h] <= import_limit and
\* grid_export[h] <= export_limit.
C6_NonNegativeAndCaps ==
    Optimal =>
        \A h \in Hours :
            /\ \A k \in DOMAIN result \ {"status", "total_cost", "total_penalty"} :
                  result[k][h] >= 0
            /\ result.charge_kWh[h] <= battery.max_charge_rate_kW
            /\ result.discharge_kWh[h] <= battery.max_discharge_rate_kW
            /\ mode = "cost" =>
                  /\ result.grid_import_kWh[h] <= grid.import_limit_kW
                  /\ result.grid_export_kWh[h] <= grid.export_limit_kW

\* An Optimal cost plan that charges at the full rate and exports at the
\* export limit in one hour, and imports at the import limit in another.
C6_Witness ==
    /\ OptimalCost
    /\ \E h \in Hours :
          /\ result.charge_kWh[h] = battery.max_charge_rate_kW
          /\ result.charge_kWh[h] > 0
          /\ result.grid_export_kWh[h] = grid.export_limit_kW
          /\ result.grid_export_kWh[h] > 0
    /\ \E h \in Hours :
          /\ result.grid_import_kWh[h] = grid.import_limit_kW
          /\ result.grid_import_kWh[h] > 0

\* max(0, min(capacity, soc0)).
Clamp(x, lo, hi) == Max2(lo, Min2(hi, x))

\* C5: in both modes, for every configured initial SOC (also below 0 or
\* above capacity_kWh; capacity_kWh >= 0), the built program fixes soc[0] to
\* clamp(soc0_kWh, 0, capacity_kWh), and so does every plan returned with
\* status Optimal: the rule is the same in cost mode and islanded mode.
C5_InitialSocClamped ==
    battery.capacity_kWh >= 0 =>
        /\ program # NoProgram =>
              program.soc_init
                = Clamp(battery.soc0_kWh, 0, battery.capacity_kWh)
        /\ Optimal =>
              result.soc_kWh[1]
                = Clamp(battery.soc0_kWh, 0, battery.capacity_kWh)

\* A series has a length other than H = len(generation).
LengthMismatch ==
    IF mode = "cost" THEN Len(demand_kwh) # Len(gen_kwh)
    ELSE \E k \in DOMAIN loads : Len(loads[k]) # Len(gen_kwh)

\* A battery rate or the capacity is negative.
NegativeBattery ==
    \/ battery.capacity_kWh < 0
    \/ battery.max_charge_rate_kW < 0
    \/ battery.max_discharge_rate_kW < 0

\* C7: whenever a demand (or per-class demand) series has a length other
\* than H, or a battery rate or the capacity is negative, the call ends with
\* a ValidationError, no program built and nothing solved.
C7_ValidationBeforeBuild ==
    (pc \in {"returned", "raised"} /\ (LengthMismatch \/ NegativeBattery)) =>
        /\ pc = "raised"
        /\ raised = "ValidationError"
        /\ program = NoProgram
        /\ status = "none"

\* C8: when the solver reports a status other than Optimal, solve_day and
\* solve_microgrid return (no exception) a result that carries that status
\* and no numeric field (a None field is written as an absent key).
C8_NonOptimalReturnedAsData ==
    (pc \in {"returned", "raised"} /\ status \notin {"none", "Optimal"}) =>
        /\ pc = "returned"
        /\ raised = "none"
        /\ result.status = status
        /\ DOMAIN result = {"status"}

\* The series a forecast file holds under one of the key casings of the
\* forecast format, <<>> if it holds none.
SeriesIn(file) ==
    IF file.exists
       /\ file.key \in {"forecast_series_kWh", "forecast_series_kwh",
                        "forecast_series"}
    THEN file.series ELSE <<>>

\* C9: in every runner, generation is the element-wise sum of the solar and
\* wind series when both have length H; in every other case (a file
\* missing, empty or of the wrong length) the run fails with an error and
\* makes no solve call.
C9_GenerationSumOrFail ==
    run_pc # "start" =>
        IF Len(SeriesIn(solar_file)) = HOURS /\ Len(SeriesIn(wind_file)) = HOURS
        THEN /\ run_pc = "solving"
             /\ solve_call.gen
                  = [h \in 1..HOURS |->
                       SeriesIn(solar_file)[h] + SeriesIn(wind_file)[h]]
        ELSE /\ run_pc = "raised"
             /\ solve_call = NoCall

\* Every entry of series s is non-negative.
NonNegative(s) == \A h \in DOMAIN s : s[h] >= 0

\* The inputs C10 calls well-formed, but for the length of the horizon.
WellFormedCost ==
    /\ mode = "cost"
    /\ Len(demand_kwh) = Len(gen_kwh)
    /\ NonNegative(gen_kwh)
    /\ NonNegative(demand_kwh)
    /\ battery.capacity_kWh >= 0
    /\ battery.max_charge_rate_kW >= 0
    /\ battery.max_discharge_rate_kW >= 0
    /\ grid.import_limit_kW >= 0
    /\ grid.export_limit_kW >= 0
    /\ grid.price_buy_per_kWh >= 0
    /\ grid.price_sell_per_kWh >= 0
    /\ params.lambda_unmet >= 0
    /\ params.mu_curtail >= 0
    /\ params.cycle_penalty >= 0

\* The call returned a result with status Optimal.
ReturnedOptimal ==
    pc = "returned" /\ status = "Optimal" /\ result.status = "Optimal"

\* C10 as stated: for every generation/demand pair of equal length with
\* non-negative entries, capacity >= 0, non-negative rate and grid limits,
\* prices and penalty weights, solve_day returns status Optimal.
C10_AsStated ==
    (pc \in {"returned", "raised"} /\ WellFormedCost) => ReturnedOptimal

\* C10 amended: the same for every such pair of length H >= 1.
C10_WellFormedIsOptimal ==
    (pc \in {"returned", "raised"} /\ WellFormedCost /\ Len(gen_kwh) >= 1)
        => ReturnedOptimal

\* A well-formed two-hour cost call whose demand exceeds what generation,
\* the battery and the import limit can deliver: unmet absorbs the rest.
C10_Witness ==
    /\ WellFormedCost
    /\ ReturnedOptimal
    /\ Len(gen_kwh) = 2
    /\ \E h \in Hours :
          /\ result.unmet_kWh[h] > 0
          /\ result.grid_import_kWh[h] = grid.import_limit_kW

----------------------------------------------------------------------------
(* Properties of calls made in turn. *)

\* The calls made so far, the current one with its outcome once it ended.
Ended ==
    [i \in 1..Len(calls) |->
        IF i = Len(calls) /\ pc \in {"returned", "raised"}
        THEN [calls[i] EXCEPT !.outcome = Outcome]
        ELSE calls[i]]

\* Call c returned a plan with status Optimal.
EndedOptimal(c) ==
    c.outcome.done /\ c.outcome.raised = "none" /\ c.outcome.status = "Optimal"

\* Islanded calls a and b differ in nothing but weight k, higher in b.
RaisedOnly(a, b, k) ==
    /\ a.inputs.mode = "islanded"
    /\ b.inputs.mode = "islanded"
    /\ b.inputs.params[k] > a.inputs.params[k]
    /\ b.inputs = [a.inputs EXCEPT !.params[k] = b.inputs.params[k]]

\* C11: of two islanded calls that differ only in the unmet penalty weight
\* of one class, both Optimal, the one with the higher weight has no more
\* total unmet energy of that class than the other.
C11_UnmetMonotoneInWeight ==
    \A i \in DOMAIN Ended, j \in DOMAIN Ended, k \in UnmetWeights :
        (EndedOptimal(Ended[i]) /\ EndedOptimal(Ended[j])
         /\ RaisedOnly(Ended[i], Ended[j], k))
            => Ended[j].outcome.unmet[k] <= Ended[i].outcome.unmet[k]

\* Raising the hospital weight from below the others to above them took
\* the hospital's unmet energy from all of its demand to less.
C11_Witness ==
    \E i \in DOMAIN Ended, j \in DOMAIN Ended :
        /\ EndedOptimal(Ended[i])
        /\ EndedOptimal(Ended[j])
        /\ RaisedOnly(Ended[i], Ended[j], "P_hospital_unmet")
        /\ Ended[i].outcome.unmet.P_hospital_unmet
             = Total(Ended[i].inputs.loads.hospital_kWh)
        /\ Ended[j].outcome.unmet.P_hospital_unmet
             < Ended[i].outcome.unmet.P_hospital_unmet

----------------------------------------------------------------------------
(* Properties of the scenarios. *)

\* The zero-generation scenario: no generation in any hour, an empty
\* battery, weights 1000 / 100 / 10 and flat demands 2 / 1 / 0.8 kWh.
ZeroGenScenario ==
    /\ mode = "islanded"
    /\ gen_kwh = Flat(Len(gen_kwh), 0)
    /\ battery.soc0_kWh = 0
    /\ loads = ZeroGenLoads(Len(gen_kwh))
    /\ params.P_hospital_unmet = 100000
    /\ params.P_school_unmet = 10000
    /\ params.P_homes_unmet = 1000

\* C13: in the zero-generation scenario (the other params the defaults or
\* one key away from them) every Optimal plan has
\* curtail[h] = 0 in every hour, and the hospital's total unmet over its
\* total demand is no greater than that of homes.
C13_ZeroGeneration ==
    (ZeroGenScenario /\ Optimal) =>
        /\ \A h \in Hours : result.curtail_kWh[h] = 0
        /\ Total(result.hospital_unmet_kWh) * Total(loads.homes_kWh)
             <= Total(result.homes_unmet_kWh) * Total(loads.hospital_kWh)

\* A two-hour plan of the scenario in which the hospital went partly
\* unserved and homes wholly.
C13_Witness ==
    /\ ZeroGenScenario
    /\ Optimal
    /\ Len(gen_kwh) = 2
    /\ Total(result.hospital_unmet_kWh) > 0
    /\ Total(result.hospital_unmet_kWh) < Total(loads.hospital_kWh)
    /\ Total(result.homes_unmet_kWh) = Total(loads.homes_kWh)

\* The flat scenario: H = 24, generation 5 kWh and demand 4 kWh every hour,
\* capacity 20 kWh, soc0 10 kWh.
FlatScenario ==
    /\ Len(gen_kwh) = HOURS
    /\ gen_kwh = Flat(HOURS, 5)
    /\ demand_kwh = Flat(HOURS, 4)
    /\ battery.capacity_kWh = 20
    /\ battery.soc0_kWh = 10

\* The cycling penalty on charge + discharge of the returned plan.
CyclingPenalty ==
    params.cycle_penalty
      * (Total(result.charge_kWh) + Total(result.discharge_kWh))

\* C14 as stated: the flat scenario returns status Optimal with no unmet
\* and no curtailed energy, and the objective value is the cycling penalty
\* to within one currency unit.
C14_AsStated ==
    (FlatScenario /\ pc \in {"returned", "raised"}) =>
        /\ ReturnedOptimal
        /\ Total(result.unmet_kWh) = 0
        /\ Total(result.curtail_kWh) = 0
        /\ result.total_cost - CyclingPenalty \in -100..100

\* C14 amended: the flat scenario in cost mode with an export limit of at
\* least the hourly surplus returns status Optimal with no unmet and no
\* curtailed energy, the whole surplus exported, and the objective value is
\* the cycling penalty plus the cost of imports less the export revenue.
C14_FlatScenario ==
    (FlatScenario /\ mode = "cost" /\ grid.export_limit_kW >= 1
     /\ pc \in {"returned", "raised"}) =>
        /\ ReturnedOptimal
        /\ Total(result.unmet_kWh) = 0
        /\ Total(result.curtail_kWh) = 0
        /\ Total(result.grid_export_kWh) >= HOURS
        /\ result.total_cost
             = CyclingPenalty
               + grid.price_buy_per_kWh * Total(result.grid_import_kWh)
               - grid.price_sell_per_kWh * Total(result.grid_export_kWh)

\* The flat day solved with energy sold at 3 per kWh: the surplus of every
\* hour exported, and an objective value below zero.
C14_Witness ==
    /\ FlatScenario
    /\ mode = "cost"
    /\ ReturnedOptimal
    /\ grid.price_sell_per_kWh = 300
    /\ Total(result.grid_export_kWh) = HOURS
    /\ result.total_cost < 0

\* The export-cap scenario: generation 2 kWh above demand in every hour,
\* export_limit 1 and price_sell 3.
ExportCapScenario ==
    /\ mode = "cost"
    /\ Len(demand_kwh) = Len(gen_kwh)
    /\ \A h \in Hours : gen_kwh[h] = demand_kwh[h] + 2
    /\ grid.export_limit_kW = 1
    /\ grid.price_sell_per_kWh = 300

\* C15: in the export-cap scenario, every hour h of an Optimal plan at which
\* the battery is at capacity, the final hour included, has
\* grid_export[h] = 1 and curtail[h] = 1.
C15_ExportCapped ==
    (ExportCapScenario /\ OptimalCost) =>
        \A h \in Hours :
            result.soc_kWh[h] = battery.capacity_kWh =>
                /\ result.grid_export_kWh[h] = 1
                /\ result.curtail_kWh[h] = 1

----------------------------------------------------------------------------
(* Properties of the builders' arithmetic. *)

\* C16: in both modes, also for an eta_discharge of 0, the builder divides
\* by no zero: the call does not end in ZeroDivisionError, and a built
\* program with a state-of-charge recurrence (H >= 2) divides discharge[h]
\* by a denominator above zero.
C16_DischargeDenominatorClamped ==
    pc \in {"returned", "raised"} =>
        /\ raised # "ZeroDivisionError"
        /\ (program # NoProgram /\ program.H >= 2) => program.eta_d.n > 0

----------------------------------------------------------------------------
(* Properties of the QAOA backend. *)

\* The objective of build_microgrid_model, lines 95-103 of
\* microgrid_model.py, on the series of a returned dict r with the weights
\* of params q.
PenaltyOf(r, q) ==
    q.P_hospital_unmet * Total(r.hospital_unmet_kWh)
    + q.P_school_unmet * Total(r.school_unmet_kWh)
    + q.P_homes_unmet * Total(r.homes_unmet_kWh)
    + q.P_curtail * Total(r.curtail_kWh)
    + q.P_cycle * (Total(r.charge_kWh) + Total(r.discharge_kWh))

\* C17: the result of solve_microgrid_qaoa obeys the decoder rules of the
\* classical solve: soc_kWh[0] is the configured initial SOC, every
\* soc_kWh[h] lies in [0, configured capacity_kWh], and total_penalty is the
\* objective of the returned plan under the configured penalty weights.
C17_QaoaDecoderContract ==
    (mode = "qaoa" /\ pc = "returned") =>
        /\ result.soc_kWh[1] = battery.soc0_kWh * SocScale
        /\ \A h \in DOMAIN result.soc_kWh :
              /\ result.soc_kWh[h] >= 0
              /\ result.soc_kWh[h] <= battery.capacity_kWh * SocScale
        /\ result.total_penalty = PenaltyOf(result, params)

----------------------------------------------------------------------------
(* Properties of the priority among the load classes. *)

\* The classes, each with the params key of its weight.
Classes == {"hospital", "school", "homes"}

WeightOf(c) == params["P_" \o c \o "_unmet"]

UnmetOf(c, h) == result[c \o "_unmet_kWh"][h]

ServedOf(c, h) == result[c \o "_served_kWh"][h]

----------------------------------------------------------------------------
(* Properties of the forecast files. *)

\* The file is as main.py writes it: 24 values under "forecast_series_kwh".
WrittenByGenerator(file) ==
    /\ file.exists
    /\ file.key = "forecast_series_kwh"
    /\ Len(file.series) = HOURS

\* C19: with both forecast files as the forecast generator writes them,
\* every runner accepts the series and goes on to the solve step with their
\* sum as generation.
C19_GeneratedForecastsAccepted ==
    (run_pc # "start" /\ WrittenByGenerator(solar_file)
     /\ WrittenByGenerator(wind_file)) =>
        /\ run_pc = "solving"
        /\ solve_call.gen = SumSeries(solar_file.series, wind_file.series)

----------------------------------------------------------------------------
(* Properties of the battery's energy. *)

\* discharge[h]/eta_d <= soc[h] + eta_c*charge[h] in hour h of the plan,
\* with the efficiencies of the built program, cleared of fractions.
HoldsWhatItDelivers(h) ==
    result.discharge_kWh[h] * program.eta_d.d * program.eta_c.d
        <= (result.soc_kWh[h] * program.eta_c.d
            + program.eta_c.n * result.charge_kWh[h]) * program.eta_d.n

\* C20: in every Optimal plan of either mode and every hour h, the final
\* hour H-1 included, discharge[h]/eta_discharge is at most
\* soc[h] + eta_charge*charge[h]: the battery delivers no energy it does
\* not hold.
C20_NoEnergyFromEmptyBattery ==
    Optimal => \A h \in Hours : HoldsWhatItDelivers(h)

\* The plan charges and discharges the battery in hour h.
ChargesAndDischarges(h) ==
    result.charge_kWh[h] > 0 /\ result.discharge_kWh[h] > 0

\* C21: no Optimal plan of either mode charges and discharges the battery
\* in the same hour: in every hour h, charge[h] > 0 and discharge[h] > 0 do
\* not both hold.
C21_NoChargeWhileDischarging ==
    Optimal => \A h \in Hours : ~ChargesAndDischarges(h)

----------------------------------------------------------------------------
(* Properties of the plan decoded from a QAOA assignment. *)

\* The classes in the order the decoder serves them, lines 113-124.
QaoaPriority == <<"hospital", "school", "homes">>

DemandOf(c, h) == loads[c \o "_kWh"][h]

\* In hour h of the decoded plan every class is served between nothing and
\* its demand, no unmet energy is negative and no curtailment is.
QaoaHourValid(h) ==
    /\ \A c \in Classes :
          /\ 0 <= ServedOf(c, h)
          /\ ServedOf(c, h) <= DemandOf(c, h)
          /\ UnmetOf(c, h) >= 0
    /\ result.curtail_kWh[h] >= 0

\* In hour h a class is served only if every class before it in the order
\* is served in full.
QaoaHourInOrder(h) ==
    \A i \in 1..3, j \in 1..3 :
        (i < j /\ ServedOf(QaoaPriority[j], h) > 0)
            => UnmetOf(QaoaPriority[i], h) = 0

\* C22: the plan decoded from any assignment x is physically valid: in
\* every hour h each class has 0 <= served <= demand and unmet >= 0, and
\* curtail >= 0, also when the decoded charge exceeds generation plus
\* discharge; and a lower-priority class is served only after every
\* higher-priority class is fully served in that hour.
C22_QaoaPlanValid ==
    (mode = "qaoa" /\ pc = "returned") =>
        \A h \in 1..HOURS : QaoaHourValid(h) /\ QaoaHourInOrder(h)

====
